---- MODULE Spec2Model ----
(***************************************************************************)
(* State machine of telethon/telegram_bare_client.py (TelegramBareClient): *)
(* connect / disconnect / _reconnect, the invocation engine (__call__ and  *)
(* _invoke), _get_dc and the three background loops, as asyncio tasks.     *)
(*                                                                         *)
(* Every coroutine call is a frame on the calling task's stack.  A task    *)
(* runs (cpu = t) from one suspension point to the next without            *)
(* interleaving, as on an asyncio event loop; at a suspension point the    *)
(* cpu is released (cpu = "none") and any parked task may be resumed.      *)
(***************************************************************************)
EXTENDS Integers, Sequences, FiniteSets, TLC

\* ---------------------------------------------------------------- bounds
MaxFaults == 2      \* faults the network / server may inject in one run
MaxOps == 3         \* operations the main task starts in one run
MaxTicks == 1       \* expiries of the periodic timers in one run
MaxRetries == 2     \* largest `retries` a user passes to invoke
MaxBatch == 2       \* largest number of requests in one user invoke
MaxFlood == 2       \* largest wait a flood error carries

\* ------------------------------------------------------ program constants
DEFAULT_DC_ID == 4
DefaultRetries == 5

\* u1 is the application's main task: it connects, disconnects and invokes;
\* u2 is a second task of the application, which invokes
Users == {"u1", "u2"}
Main == "u1"
Loops == {"recv", "ping", "state"}
Tasks == Users \cup Loops

\* ids of the data centers the server's configuration lists (non-CDN)
DCs == {2, DEFAULT_DC_ID}

VARIABLES
    o,        \* the TelegramBareClient instance: its fields, its session, its sender
    config,   \* TelegramBareClient._config (class attribute)
    stack,    \* stack[t]: coroutine frames of task t, innermost last
    exc,      \* exc[t]: the exception propagating in task t
    ret,      \* ret[t]: the value the last finished callee returned
    cpu,      \* the task the event loop is running, or "none"
    task,     \* task[t]: "idle"/"none", "new" (scheduled), "live"
    faults,   \* faults the network / server may still inject
    ops,      \* ops[u]: operations user task u may still start
    ticks,    \* expiries of the periodic timers (ping, state refresh) still to come
    done,     \* done[t]: record of the last __call__ that finished in task t
    hist      \* history: what the user asked for, first send on a link,
              \* the data centers a key was exchanged with

vars == <<o, config, stack, exc, ret, cpu, task, faults, ops, ticks, done, hist>>

\* ------------------------------------------------------------ values
NoExc == [kind |-> "none", which |-> <<>>, depth |-> 0]
RetVal(tag, val) == [tag |-> tag, val |-> val, slept |-> 0, wrapped |-> FALSE]
RetNone == RetVal("None", <<>>)
Truthy(r) == r.tag \in {"True", "coroutine", "result", "results", "dc", "client"}

Request(kind, id) ==
    [kind |-> kind, id |-> id, wrap |-> 0, rpc_error |-> "none", arg |-> 0,
     result |-> FALSE, confirm |-> FALSE, lost |-> FALSE]

Frame == [fn |-> "", pc |-> "", reqs |-> <<>>, listarg |-> TRUE, single |-> TRUE,
          retries |-> 0, retry |-> 0, call_receive |-> FALSE, ordered |-> FALSE,
          new_dc |-> 0, cdn |-> FALSE, sync_updates |-> TRUE, need_reconnect |-> FALSE,
          fails |-> 0, reconns |-> 0, skips |-> 0, slept |-> 0, migrated |-> 0,
          had_config |-> FALSE, fetches |-> 0, lookups |-> 0,
          export_auth |-> FALSE, child_connected |-> FALSE,
          orig_reqs |-> <<>>, orig_ordered |-> FALSE, reset |-> FALSE, booted |-> FALSE,
          aborted |-> "none", began |-> 0]

CallFrame(reqs, single, retries, ordered) ==
    [Frame EXCEPT !.fn = "call", !.pc = "start", !.reqs = reqs, !.single = single,
                  !.retries = retries, !.ordered = ordered]
InvokeFrame(call_receive, retry, reqs, listarg, ordered) ==
    [Frame EXCEPT !.fn = "invoke", !.pc = "start", !.call_receive = call_receive,
                  !.retry = retry, !.reqs = reqs, !.listarg = listarg, !.ordered = ordered]
ReconnectFrame(new_dc) == [Frame EXCEPT !.fn = "reconnect", !.pc = "start", !.new_dc = new_dc]
ConnectFrame(sync) == [Frame EXCEPT !.fn = "connect", !.pc = "start", !.sync_updates = sync]
GetDcFrame(dc_id, cdn) == [Frame EXCEPT !.fn = "get_dc", !.pc = "start", !.new_dc = dc_id, !.cdn = cdn]
ExportedFrame(dc_id) == [Frame EXCEPT !.fn = "exported", !.pc = "start", !.new_dc = dc_id]

NoGetDc == [dc |-> 0, cdn |-> FALSE, had_config |-> FALSE, fetches |-> 0, lookups |-> 0,
            end |-> "none", exc |-> "none"]
NoDone == [which |-> <<>>, retries |-> 0, attempts |-> 0, fails |-> 0, reconns |-> 0,
           skips |-> 0, slept |-> 0, end |-> "none", exc |-> "none", own |-> FALSE,
           wanted |-> FALSE, val |-> <<>>, single |-> TRUE, excwhich |-> <<>>,
           shape |-> "None", wrapped |-> FALSE]

\* ------------------------------------------------------------ stack helpers
Top(t) == stack[t][Len(stack[t])]
Below(t) == SubSeq(stack[t], 1, Len(stack[t]) - 1)
SetTop(t, f) == [stack EXCEPT ![t] = Below(t) \o <<f>>]
Push(t, f, g) == [stack EXCEPT ![t] = Below(t) \o <<f, g>>]
Pop(t) == [stack EXCEPT ![t] = Below(t)]
Goto(t, pc) == SetTop(t, [Top(t) EXCEPT !.pc = pc])
Kinds(reqs) == [i \in 1..Len(reqs) |-> reqs[i].kind]

\* the task is running and its innermost frame is at pc of fn
At(t, fn, pc) ==
    /\ cpu = t /\ exc[t] = NoExc /\ stack[t] # <<>>
    /\ Top(t).fn = fn /\ Top(t).pc = pc
\* the task is suspended at pc of fn and the event loop may resume it.  The
\* loop runs what is ready first, in the order it was scheduled: a pending
\* cancellation and the first step of a new task come before any wake-up
Parked(t, fn, pc) ==
    /\ cpu = "none" /\ task[t] = "live" /\ exc[t] = NoExc /\ stack[t] # <<>>
    /\ Top(t).fn = fn /\ Top(t).pc = pc
    /\ o.cancelled = {}
    /\ \A l \in Tasks : task[l] # "new"

Raise(t, kind, which) ==
    [exc EXCEPT ![t] = [kind |-> kind, which |-> which, depth |-> Len(stack[t])]]

\* ------------------------------------------------------------ the sender (MtProtoSender)
\* The sender's code is not part of the file; it is modelled from its interface:
\* a link that is open or closed, requests awaiting their answer on it.

\* requests sent and not yet answered: when the link closes they stay
\* unanswered; a receive or a key exchange pending on the link ends with a
\* connection error, also when the link has been opened again by then
DropFrame(f) ==
    IF f.fn = "invoke" /\ f.pc \in {"wait", "recv"}
    THEN [f EXCEPT !.reqs = [j \in 1..Len(f.reqs) |->
                IF f.reqs[j].confirm THEN f.reqs[j] ELSE [f.reqs[j] EXCEPT !.lost = TRUE]],
                   !.reset = (f.pc = "recv")]
    ELSE IF (f.fn = "invoke" /\ f.pc = "auth") \/ (f.fn = "recv" /\ f.pc = "receive")
    THEN [f EXCEPT !.reset = TRUE]
    ELSE f
\* the link is open and has been since the task's operation on it began
LinkUp(t) == o.connected /\ ~Top(t).reset
DropPending(stk) ==
    [t \in Tasks |-> [i \in 1..Len(stk[t]) |-> DropFrame(stk[t][i])]]

\* sender.send(requests): each request starts a fresh round trip
Sent(reqs) ==
    [j \in 1..Len(reqs) |-> [reqs[j] EXCEPT !.result = FALSE, !.confirm = FALSE,
                                            !.lost = FALSE, !.arg = 0]]
AllConfirmed(f) == \A j \in 1..Len(f.reqs) : f.reqs[j].confirm
AnyLost(f) == \E j \in 1..Len(f.reqs) : f.reqs[j].lost
\* the task awaits answers that can still arrive
Awaiting(t) ==
    /\ task[t] = "live" /\ stack[t] # <<>>
    /\ Top(t).fn = "invoke" /\ Top(t).pc \in {"wait", "recv"}
    /\ ~AllConfirmed(Top(t)) /\ ~AnyLost(Top(t))

\* history: the first request sent on the link after a disconnect()
NoteSend(h, wrapped) ==
    IF h.fresh = "pending"
    THEN [h EXCEPT !.fresh = IF wrapped THEN "wrapped" ELSE "bare"]
    ELSE h

\* ------------------------------------------------------------ disconnect()
LoopHandle(c, l) ==
    CASE l = "recv" -> c.recv_loop
      [] l = "ping" -> c.ping_loop
      [] l = "state" -> c.state_loop

\* variant: the handles of the cancelled tasks are kept
disconnect_KeepsHandles(c) ==
    [c EXCEPT !.user_connected = FALSE,
              !.connected = FALSE,
              !.cancelled = @ \cup {l \in Loops : LoopHandle(c, l) /\ task[l] # "none"},
              !.first_request = TRUE]

\* lines 252-269: the fields disconnect() leaves behind.  Task.cancel() takes
\* effect when the cancelled task is next scheduled (o.cancelled).
disconnect(c) ==
    [c EXCEPT !.user_connected = FALSE,
              !.connected = FALSE,
              !.cancelled = @ \cup {l \in Loops : LoopHandle(c, l) /\ task[l] # "none"},
              !.recv_loop = FALSE,
              !.ping_loop = FALSE,
              !.state_loop = FALSE,
              !.first_request = TRUE]

NoteDisconnect(h) == [h EXCEPT !.fresh = "pending"]

\* lines 499-500: a key exchange was completed against data center dc
NoteKeyExchange(h, dc) == [h EXCEPT !.keyed = @ \cup {dc}]

\* ------------------------------------------------------------ the user
\* the user awaits client.connect()
UserConnect(t) ==
    /\ t = Main /\ cpu = "none" /\ task[t] = "idle" /\ o.cancelled = {}
    /\ ops[t] > 0
    /\ ops' = [ops EXCEPT ![t] = @ - 1]
    /\ ticks' = ticks
    /\ stack' = [stack EXCEPT ![t] = <<ConnectFrame(TRUE)>>]
    /\ task' = [task EXCEPT ![t] = "live"]
    /\ cpu' = t
    /\ hist' = [hist EXCEPT !.op = [hist.op EXCEPT ![t] = "connect"],
                             !.result = [hist.result EXCEPT ![t] = "none"]]
    /\ done' = [done EXCEPT ![t] = NoDone]
    /\ UNCHANGED <<o, config, exc, ret, faults>>

\* the user calls client.disconnect()
UserDisconnect(t) ==
    /\ t = Main /\ cpu = "none" /\ task[t] = "idle" /\ o.cancelled = {}
    /\ ops[t] > 0 /\ "disconnect" \in hist.kinds[t]
    /\ ops' = [ops EXCEPT ![t] = @ - 1]
    /\ ticks' = ticks
    /\ o' = disconnect(o)
    /\ stack' = DropPending(stack)
    /\ hist' = [NoteDisconnect(hist) EXCEPT !.userWants = FALSE,
                                            !.op = [hist.op EXCEPT ![t] = "disconnect"]]
    /\ UNCHANGED <<config, exc, ret, cpu, task, faults, done>>

\* the user awaits client(request, retries, ordered) with one request or with
\* a list of n requests
UserInvoke(t) ==
    /\ t \in Users /\ cpu = "none" /\ task[t] = "idle" /\ o.cancelled = {}
    /\ ops[t] > 0 /\ "invoke" \in hist.kinds[t]
    /\ \E n \in 1..MaxBatch, r \in 1..MaxRetries, ord \in BOOLEAN, single \in BOOLEAN :
          /\ (n = 1 => ~ord)
          /\ (single => n = 1)
          /\ (~single => "batch" \in hist.kinds[t])
          /\ stack' = [stack EXCEPT ![t] =
                <<CallFrame([i \in 1..n |-> Request("X", i)], single, r, ord)>>]
    /\ ops' = [ops EXCEPT ![t] = @ - 1]
    /\ ticks' = ticks
    /\ task' = [task EXCEPT ![t] = "live"]
    /\ cpu' = t
    /\ hist' = [hist EXCEPT !.op = [hist.op EXCEPT ![t] = "invoke"],
                             !.result = [hist.result EXCEPT ![t] = "none"]]
    /\ done' = [done EXCEPT ![t] = NoDone]
    /\ UNCHANGED <<o, config, exc, ret, faults>>

\* data center ids asked for: one the server lists, one it does not
AskedDCs == {2, 3}

\* the user awaits client._get_dc(dc_id, cdn)
UserGetDc(t) ==
    /\ t = Main /\ cpu = "none" /\ task[t] = "idle" /\ o.cancelled = {}
    /\ ops[t] > 0 /\ "get_dc" \in hist.kinds[t]
    /\ ops' = [ops EXCEPT ![t] = @ - 1]
    /\ \E d \in AskedDCs, cdn \in BOOLEAN :
          stack' = [stack EXCEPT ![t] = <<GetDcFrame(d, cdn)>>]
    /\ task' = [task EXCEPT ![t] = "live"]
    /\ cpu' = t
    /\ hist' = [hist EXCEPT !.op = [hist.op EXCEPT ![t] = "get_dc"],
                             !.result = [hist.result EXCEPT ![t] = "none"],
                             !.getdc = NoGetDc]
    /\ done' = [done EXCEPT ![t] = NoDone]
    /\ UNCHANGED <<o, config, exc, ret, faults, ticks>>

\* the user awaits client._get_exported_client(dc_id)
UserGetExported(t) ==
    /\ t \in Users /\ cpu = "none" /\ task[t] = "idle" /\ o.cancelled = {}
    /\ ops[t] > 0 /\ "exported" \in hist.kinds[t]
    /\ ops' = [ops EXCEPT ![t] = @ - 1]
    /\ stack' = [stack EXCEPT ![t] =
          <<[ExportedFrame(CHOOSE d \in DCs : d # DEFAULT_DC_ID)
                EXCEPT !.began = Len(hist.clients)]>>]
    /\ task' = [task EXCEPT ![t] = "live"]
    /\ cpu' = t
    /\ hist' = [hist EXCEPT !.op = [hist.op EXCEPT ![t] = "exported"],
                             !.result = [hist.result EXCEPT ![t] = "none"],
                             !.exported_calls = @ + 1]
    /\ done' = [done EXCEPT ![t] = NoDone]
    /\ UNCHANGED <<o, config, exc, ret, faults, ticks>>

\* ------------------------------------------------------------ __call__ (lines 421-485)
\* lines 465-466
CallReceive(c) == ~c.idling \/ c.reconnect_lock # "free"

call_start(t) ==
    /\ At(t, "call", "start")
    /\ stack' = SetTop(t, [Top(t) EXCEPT !.call_receive = CallReceive(o), !.pc = "loop"])
    /\ UNCHANGED <<o, config, exc, ret, cpu, task, faults, ops, ticks, done, hist>>

\* line 468: the loop runs while retry < retries
MoreRetries(f) == f.retry < f.retries

\* lines 468-470 and 483-485
call_loop(t) ==
    /\ At(t, "call", "loop")
    /\ IF MoreRetries(Top(t))
       THEN /\ stack' = Push(t, [Top(t) EXCEPT !.pc = "result"],
                  InvokeFrame(Top(t).call_receive, Top(t).retry, Top(t).reqs, TRUE,
                              Top(t).ordered))
            /\ exc' = exc
       ELSE /\ exc' = Raise(t, "RetriesReached", Kinds(Top(t).reqs))
            /\ stack' = stack
    /\ UNCHANGED <<o, config, ret, cpu, task, faults, ops, ticks, done, hist>>

CallDone(t, f, end, e, r) ==
    IF t \notin Users THEN NoDone ELSE
    [which |-> Kinds(f.reqs), retries |-> f.retries,
     attempts |-> IF f.pc = "loop" THEN f.retry ELSE f.retry + 1,
     fails |-> f.fails, reconns |-> f.reconns, skips |-> f.skips, slept |-> f.slept,
     end |-> end, exc |-> e.kind, own |-> (e.depth = Len(stack[t])),
     wanted |-> hist.userWants, val |-> r.val, single |-> f.single, excwhich |-> e.which,
     shape |-> r.tag, wrapped |-> r.wrapped]

\* line 472: what __call__ hands back
\* variant: a single request's result comes back as a one-element list
CallResult_AlwaysList(f, r) == r
CallResult(f, r) == IF f.single THEN [r EXCEPT !.tag = "result", !.val = <<r.val[1]>>] ELSE r

\* lines 471-478: the attempt's result; no result: back off for a second
call_result(t) ==
    /\ At(t, "call", "result")
    /\ IF ret[t].tag # "None"
       THEN /\ stack' = Pop(t)
            /\ ret' = [ret EXCEPT ![t] = CallResult(Top(t), ret[t])]
            /\ done' = [done EXCEPT ![t] =
                    CallDone(t, [Top(t) EXCEPT !.slept = @ + ret[t].slept], "returned",
                             NoExc, CallResult(Top(t), ret[t]))]
            /\ cpu' = cpu
       ELSE /\ stack' = SetTop(t, [Top(t) EXCEPT !.pc = "sleep", !.fails = @ + 1,
                                                 !.slept = @ + ret[t].slept])
            /\ cpu' = "none"
            /\ UNCHANGED <<ret, done>>
    /\ UNCHANGED <<o, config, exc, task, faults, ops, ticks, hist>>

\* variant: the lock is never seen held
LockHeld_Never(c) == FALSE

\* line 479
LockHeld(c) == c.reconnect_lock # "free"

\* variant: after the back-off the next attempt starts without reconnecting
call_sleep_NoReconnect(t) ==
    /\ Parked(t, "call", "sleep")
    /\ cpu' = t
    /\ stack' = SetTop(t, [Top(t) EXCEPT !.pc = "loop", !.retry = @ + 1])
    /\ UNCHANGED <<o, config, exc, ret, task, faults, ops, ticks, done, hist>>

\* lines 479-481: after the back-off, reconnect unless somebody already does
call_sleep(t) ==
    /\ Parked(t, "call", "sleep")
    /\ cpu' = t
    /\ IF ~LockHeld(o)
       THEN /\ o' = [o EXCEPT !.reconnect_lock = t]
            /\ stack' = Push(t, [Top(t) EXCEPT !.pc = "reconnected", !.reconns = @ + 1],
                             ReconnectFrame(0))
       ELSE /\ o' = o
            /\ stack' = SetTop(t, [Top(t) EXCEPT !.pc = "loop", !.retry = @ + 1,
                                                 !.skips = @ + 1])
    /\ UNCHANGED <<config, exc, ret, task, faults, ops, ticks, done, hist>>

\* line 480: leaving the `with` block releases the lock
call_reconnected(t) ==
    /\ At(t, "call", "reconnected")
    /\ o' = [o EXCEPT !.reconnect_lock = "free"]
    /\ stack' = SetTop(t, [Top(t) EXCEPT !.pc = "loop", !.retry = @ + 1])
    /\ UNCHANGED <<config, exc, ret, cpu, task, faults, ops, ticks, done, hist>>

\* ------------------------------------------------------------ answers of the server
Outcome(e, arg) == [e |-> e, arg |-> arg]
\* what the server may answer to one request: a result, nothing (the container
\* was rejected), or an RPC error
Outcomes(req) ==
    IF req.kind = "GetState" /\ ~hist.logged_in
    THEN {Outcome("Unauthorized", 0)}
    ELSE {Outcome("ok", 0), Outcome("Rejected", 0), Outcome("Server", 0),
          Outcome("AuthKey", 0), Outcome("RPCOther", 0)}
         \cup {Outcome("Migrate", d) : d \in DCs \ {o.dc}}
         \cup {Outcome("Flood", s) : s \in 1..MaxFlood}
Vectors(f) ==
    {v \in [1..Len(f.reqs) -> UNION {Outcomes(f.reqs[j]) : j \in 1..Len(f.reqs)}] :
        \A j \in 1..Len(f.reqs) : v[j] \in Outcomes(f.reqs[j])}
IsFault(v) == \E j \in DOMAIN v : v[j].e \notin {"ok", "Unauthorized"}
\* the receive path stores the answer in the request and sets confirm_received
Respond(f, v) ==
    [f EXCEPT !.reqs = [j \in 1..Len(f.reqs) |->
        [f.reqs[j] EXCEPT !.confirm = TRUE,
                          !.result = (v[j].e = "ok"),
                          !.rpc_error = IF v[j].e \in {"ok", "Rejected"} THEN "none" ELSE v[j].e,
                          !.arg = v[j].arg]]]
Deliver(stk, T, v) ==
    [stk EXCEPT ![T] = SubSeq(stk[T], 1, Len(stk[T]) - 1) \o <<Respond(stk[T][Len(stk[T])], v)>>]

\* ------------------------------------------------------------ _invoke (lines 490-585)
\* lines 239-250
wrap_init_connection(req) == [req EXCEPT !.wrap = @ + 1]

\* lines 542-554: a connection reset while invoking
OnReset(t) ==
    IF o.user_connected
    THEN /\ o' = [o EXCEPT !.connected = FALSE]
         /\ stack' = DropPending(Pop(t))
         /\ ret' = [ret EXCEPT ![t] = RetNone]
         /\ exc' = exc
    ELSE /\ exc' = Raise(t, "NoConnect", <<>>)
         /\ UNCHANGED <<o, stack, ret>>

\* lines 491-500: without a key the key exchange starts; on a closed link it
\* fails at once
invoke_start(t) ==
    /\ At(t, "invoke", "start")
    /\ IF ~Top(t).listarg
       THEN \* `for x in requests` over a request object
            /\ exc' = Raise(t, "TypeError", <<>>)
            /\ UNCHANGED <<o, stack, cpu, ret>>
       ELSE IF o.auth_key # 0
       THEN /\ stack' = Goto(t, "init")
            /\ UNCHANGED <<o, exc, cpu, ret>>
       ELSE IF o.connected
       THEN /\ o' = [o EXCEPT !.first_request = TRUE]
            /\ stack' = Goto(t, "auth")
            /\ cpu' = "none"
            /\ UNCHANGED <<exc, ret>>
       ELSE IF o.user_connected
       THEN /\ o' = [o EXCEPT !.first_request = TRUE]
            /\ stack' = DropPending(Pop(t))
            /\ ret' = [ret EXCEPT ![t] = RetNone]
            /\ UNCHANGED <<exc, cpu>>
       ELSE /\ o' = [o EXCEPT !.first_request = TRUE]
            /\ exc' = Raise(t, "NoConnect", <<>>)
            /\ UNCHANGED <<stack, cpu, ret>>
    /\ UNCHANGED <<config, task, faults, ops, ticks, done, hist>>

\* lines 499-500: authenticator.do_authentication over the sender's connection
invoke_auth(t) ==
    /\ Parked(t, "invoke", "auth")
    /\ cpu' = t
    /\ IF LinkUp(t)
       THEN /\ o' = [o EXCEPT !.auth_key = o.dc]
            /\ hist' = NoteKeyExchange(hist, o.dc)
            /\ stack' = Goto(t, "init")
            /\ UNCHANGED <<ret, exc>>
       ELSE /\ OnReset(t)
            /\ hist' = hist
    /\ UNCHANGED <<config, task, faults, ops, ticks, done>>

\* lines 502-512
invoke_init(t) ==
    /\ At(t, "invoke", "init")
    /\ IF ~o.first_request
       THEN stack' = Goto(t, "send")
       ELSE IF Len(Top(t).reqs) = 1
       THEN stack' = SetTop(t, [Top(t) EXCEPT !.pc = "send",
                                   !.reqs = <<wrap_init_connection(Top(t).reqs[1])>>])
       ELSE stack' = Push(t, [Top(t) EXCEPT !.pc = "bootstrapped"],
                          CallFrame(<<wrap_init_connection(Request("GetConfig", 1))>>,
                                    TRUE, DefaultRetries, FALSE))
    /\ UNCHANGED <<o, config, exc, ret, cpu, task, faults, ops, ticks, done, hist>>

\* lines 510-512: the bootstrap call's result becomes the configuration
invoke_bootstrapped(t) ==
    /\ At(t, "invoke", "bootstrapped")
    /\ config' = [set |-> TRUE, dcs |-> hist.server_dcs]
    /\ stack' = SetTop(t, [Top(t) EXCEPT !.pc = "send", !.booted = TRUE])
    /\ UNCHANGED <<o, exc, ret, cpu, task, faults, ops, ticks, done, hist>>

\* lines 514-524: send, then wait for the answers (inline or on the signals)
invoke_send(t) ==
    /\ At(t, "invoke", "send")
    /\ IF o.connected
       THEN /\ stack' = SetTop(t, [Top(t) EXCEPT !.reqs = Sent(Top(t).reqs),
                    !.pc = IF Top(t).call_receive THEN "recv" ELSE "wait"])
            /\ hist' = NoteSend(hist, Top(t).reqs[1].wrap > 0)
            /\ cpu' = "none"
            /\ UNCHANGED <<o, ret, exc>>
       ELSE /\ OnReset(t)
            /\ UNCHANGED <<hist, cpu>>
    /\ UNCHANGED <<config, task, faults, ops, ticks, done>>

\* lines 516-521: asyncio.wait(signals, timeout): returns when every signal is
\* set or when the timeout is over, and raises nothing
invoke_wait(t) ==
    /\ Parked(t, "invoke", "wait")
    /\ IF AllConfirmed(Top(t)) \/ AnyLost(Top(t))
       THEN faults' = faults
       ELSE faults > 0 /\ faults' = faults - 1
    /\ stack' = SetTop(t, [Top(t) EXCEPT !.pc = "post",
                 !.aborted = IF AllConfirmed(Top(t)) THEN "none" ELSE "Timeout"])
    /\ cpu' = t
    /\ UNCHANGED <<o, config, exc, ret, task, ops, ticks, done, hist>>

\* lines 523-524: one sender.receive() of the inline loop handles the answer
\* to some pending round trip (of this task or of another one)
invoke_recv_deliver(t) ==
    /\ Parked(t, "invoke", "recv")
    /\ LinkUp(t)
    /\ \E T \in {x \in Tasks : Awaiting(x)} : \E v \in Vectors(Top(T)) :
          /\ IF IsFault(v) THEN faults > 0 /\ faults' = faults - 1
                           ELSE faults' = faults
          /\ LET stk == Deliver(stack, T, v)
                 f == stk[t][Len(stk[t])]
             IN IF AllConfirmed(f)
                THEN /\ stack' = [stk EXCEPT ![t] = SubSeq(stk[t], 1, Len(stk[t]) - 1)
                                                       \o <<[f EXCEPT !.pc = "post"]>>]
                     /\ cpu' = t
                ELSE /\ stack' = stk
                     /\ cpu' = "none"
    /\ UNCHANGED <<o, config, exc, ret, task, ops, ticks, done, hist>>

\* lines 526-540: errors of the send/receive cycle that end the attempt
RecvErrors == {"BrokenAuthKey", "TypeNotFound", "Timeout"}
AfterRecvError(c, e) ==
    CASE e = "BrokenAuthKey" -> [c EXCEPT !.auth_key = 0]
      [] e = "TypeNotFound" -> [c EXCEPT !.first_request = TRUE]
      [] OTHER -> c

invoke_recv_error(t) ==
    /\ Parked(t, "invoke", "recv")
    /\ LinkUp(t)
    /\ faults > 0
    /\ faults' = faults - 1
    /\ \E e \in RecvErrors :
          /\ o' = AfterRecvError(o, e)
          /\ stack' = SetTop(t, [Top(t) EXCEPT !.pc = "post", !.aborted = e])
    /\ cpu' = t
    /\ UNCHANGED <<config, exc, ret, task, ops, ticks, done, hist>>

\* a receive on a closed link raises ConnectionResetError
invoke_recv_reset(t) ==
    /\ Parked(t, "invoke", "recv")
    /\ ~LinkUp(t)
    /\ cpu' = t
    /\ OnReset(t)
    /\ UNCHANGED <<config, task, faults, ops, ticks, done, hist>>

\* a receive that handled something else, after the answers were stored by
\* another receiver: the loop's condition ends it
invoke_recv_other(t) ==
    /\ Parked(t, "invoke", "recv")
    /\ LinkUp(t)
    /\ AllConfirmed(Top(t))
    /\ stack' = Goto(t, "post")
    /\ cpu' = t
    /\ UNCHANGED <<o, config, exc, ret, task, faults, ops, ticks, done, hist>>

\* variant: the last request, in order, that carries an error
FirstError_Last(reqs) ==
    LET bad == {j \in 1..Len(reqs) : reqs[j].rpc_error # "none"}
    IN IF bad = {} THEN 0 ELSE CHOOSE j \in bad : \A k \in bad : j >= k

\* line 560: the first request, in order, that carries an error (0: none)
FirstError(reqs) ==
    LET bad == {j \in 1..Len(reqs) : reqs[j].rpc_error # "none"}
    IN IF bad = {} THEN 0 ELSE CHOOSE j \in bad : \A k \in bad : j <= k

\* variant: a wait equal to the threshold is raised too
FloodRaises_AtThreshold(seconds, c) == seconds >= c.flood_sleep_threshold

\* line 581
FloodRaises(seconds, c) == seconds > c.flood_sleep_threshold

\* lines 556-585: the attempt's outcome
invoke_post(t) ==
    /\ At(t, "invoke", "post")
    /\ o' = [o EXCEPT !.first_request = FALSE]
    /\ LET f == Top(t)
           i == FirstError(f.reqs)
           e == IF i = 0 THEN "none" ELSE f.reqs[i].rpc_error
       IN CASE e = "none" ->
                 /\ stack' = Pop(t)
                 /\ ret' = [ret EXCEPT ![t] =
                        IF \E j \in 1..Len(f.reqs) : ~f.reqs[j].result
                        THEN RetNone
                        ELSE [RetVal("results", [j \in 1..Len(f.reqs) |-> f.reqs[j].id])
                              EXCEPT !.wrapped = f.booted \/ f.reqs[1].wrap > 0]]
                 /\ UNCHANGED <<exc, cpu>>
            [] e = "Migrate" ->
                 /\ stack' = Push(t, [f EXCEPT !.pc = "migrated", !.migrated = f.reqs[i].arg],
                                  ReconnectFrame(f.reqs[i].arg))
                 /\ UNCHANGED <<ret, exc, cpu>>
            [] e = "Server" ->
                 /\ stack' = Pop(t)
                 /\ ret' = [ret EXCEPT ![t] = RetNone]
                 /\ UNCHANGED <<exc, cpu>>
            [] e = "Flood" ->
                 IF FloodRaises(f.reqs[i].arg, o)
                 THEN /\ exc' = Raise(t, "Flood", <<>>)
                      /\ stack' = SetTop(t, [f EXCEPT !.slept = 0])
                      /\ UNCHANGED <<ret, cpu>>
                 ELSE /\ stack' = SetTop(t, [f EXCEPT !.pc = "flood_sleep",
                                                      !.slept = f.reqs[i].arg])
                      /\ cpu' = "none"
                      /\ UNCHANGED <<ret, exc>>
            [] OTHER ->
                 /\ exc' = Raise(t, e, <<>>)
                 /\ UNCHANGED <<stack, ret, cpu>>
    /\ UNCHANGED <<config, task, faults, ops, ticks, done, hist>>

\* lines 584-585: after the sleep the attempt yields no result
invoke_flood_sleep(t) ==
    /\ Parked(t, "invoke", "flood_sleep")
    /\ stack' = Pop(t)
    /\ ret' = [ret EXCEPT ![t] = [RetNone EXCEPT !.slept = Top(t).slept]]
    /\ cpu' = t
    /\ UNCHANGED <<o, config, exc, task, faults, ops, ticks, done, hist>>

\* line 573: `return await self._invoke(call_receive, retry, *requests)` binds
\* the first request to the parameter `requests` and the second, if any, to
\* `ordered`; more than two requests are too many positional arguments.  The
\* re-run takes the place of this frame (its result is handed on unchanged)
invoke_migrated(t) ==
    /\ At(t, "invoke", "migrated")
    /\ IF Len(Top(t).reqs) > 2
       THEN /\ exc' = Raise(t, "TypeError", <<>>)
            /\ stack' = stack
       ELSE /\ stack' = SetTop(t, [InvokeFrame(Top(t).call_receive, Top(t).retry,
                                               <<Top(t).reqs[1]>>, FALSE, Len(Top(t).reqs) = 2)
                                   EXCEPT !.migrated = Top(t).migrated,
                                          !.orig_reqs = Top(t).reqs,
                                          !.orig_ordered = Top(t).ordered])
            /\ exc' = exc
    /\ UNCHANGED <<o, config, ret, cpu, task, faults, ops, ticks, done, hist>>

\* ------------------------------------------------------------ connect (lines 177-234)
LoopFrame(l) == [Frame EXCEPT !.fn = l, !.pc = "start"]

\* variant: the loops are started whether or not they have a handle
StartLoops_All(c) == Loops
\* lines 618-625: _set_connected_and_authorized starts the loops that have no handle
StartLoops(c) == {l \in Loops : ~LoopHandle(c, l)}
\* variant: the state task is not started
set_connected_and_authorized_NoState(c) ==
    [c EXCEPT !.authorized = "True", !.recv_loop = TRUE, !.ping_loop = TRUE]
set_connected_and_authorized(c) ==
    [c EXCEPT !.authorized = "True", !.recv_loop = TRUE, !.ping_loop = TRUE,
              !.state_loop = TRUE]
WithLoops(tk, c) == [l \in Tasks |-> IF l \in StartLoops(c) THEN "new" ELSE tk[l]]
WithLoopFrames(stk, c) ==
    [l \in Tasks |-> IF l \in StartLoops(c) THEN <<LoopFrame(l)>> ELSE stk[l]]

connect_start(t) ==
    /\ At(t, "connect", "start")
    /\ stack' = Goto(t, "sender_connect")
    /\ cpu' = "none"
    /\ UNCHANGED <<o, config, exc, ret, task, faults, ops, ticks, done, hist>>

\* lines 195-212: the link is open
connect_sender_ok(t) ==
    /\ Parked(t, "connect", "sender_connect")
    /\ cpu' = t
    /\ LET c == [o EXCEPT !.connected = TRUE, !.user_connected = TRUE]
       IN IF c.authorized = "None" /\ Top(t).sync_updates
          THEN \* sync_updates(): self.updates.process(await self(GetStateRequest()))
               /\ o' = c
               /\ stack' = Push(t, [Top(t) EXCEPT !.pc = "synced"],
                     CallFrame(<<Request("GetState", 1)>>, TRUE, DefaultRetries, FALSE))
               /\ UNCHANGED <<ret, task>>
          ELSE IF c.authorized = "True"
          THEN /\ o' = set_connected_and_authorized(c)
               /\ task' = WithLoops(task, c)
               /\ stack' = WithLoopFrames(Pop(t), c)
               /\ ret' = [ret EXCEPT ![t] = RetVal("True", <<>>)]
          ELSE /\ o' = c
               /\ stack' = Pop(t)
               /\ ret' = [ret EXCEPT ![t] = RetVal("True", <<>>)]
               /\ task' = task
    /\ UNCHANGED <<config, exc, faults, ops, ticks, done, hist>>

\* lines 230-234: sender.connect() raised a ConnectionError
connect_sender_fail(t) ==
    /\ Parked(t, "connect", "sender_connect")
    /\ faults > 0
    /\ faults' = faults - 1
    /\ cpu' = t
    /\ o' = disconnect(o)
    /\ hist' = NoteDisconnect(hist)
    /\ stack' = DropPending(Pop(t))
    /\ ret' = [ret EXCEPT ![t] = RetVal("False", <<>>)]
    /\ UNCHANGED <<config, exc, task, ops, ticks, done>>

\* lines 205-206 and 212: the update state is in sync
connect_synced(t) ==
    /\ At(t, "connect", "synced")
    /\ o' = set_connected_and_authorized(o)
    /\ task' = WithLoops(task, o)
    /\ stack' = WithLoopFrames(Pop(t), o)
    /\ ret' = [ret EXCEPT ![t] = RetVal("True", <<>>)]
    /\ UNCHANGED <<config, exc, cpu, faults, ops, ticks, done, hist>>

\* ------------------------------------------------------------ _reconnect (lines 271-305)
reconnect_start(t) ==
    /\ At(t, "reconnect", "start")
    /\ IF Top(t).new_dc = 0
       THEN IF o.connected
            THEN /\ stack' = Pop(t)
                 /\ ret' = [ret EXCEPT ![t] = RetVal("True", <<>>)]
            ELSE /\ stack' = Push(t, [Top(t) EXCEPT !.pc = "connected"], ConnectFrame(TRUE))
                 /\ ret' = ret
       ELSE /\ stack' = Push(t, [Top(t) EXCEPT !.pc = "got_dc"], GetDcFrame(Top(t).new_dc, FALSE))
            /\ ret' = ret
    /\ UNCHANGED <<o, config, exc, cpu, task, faults, ops, ticks, done, hist>>

\* a rebinding that carries the old key over to the new data center
Rebind_KeepsKey(c, dc) == [c EXCEPT !.dc = dc]

\* lines 299-302: the session is bound to the new data center, its key dropped
Rebind(c, dc) == [c EXCEPT !.dc = dc, !.auth_key = 0]

\* lines 299-305
reconnect_got_dc(t) ==
    /\ At(t, "reconnect", "got_dc")
    /\ o' = disconnect(Rebind(o, ret[t].val[1]))
    /\ hist' = NoteDisconnect(hist)
    /\ stack' = DropPending(Push(t, [Top(t) EXCEPT !.pc = "connected"], ConnectFrame(TRUE)))
    /\ UNCHANGED <<config, exc, ret, cpu, task, faults, ops, ticks, done>>

\* lines 288 and 305: `return await self.connect()`
reconnect_connected(t) ==
    /\ At(t, "reconnect", "connected")
    /\ stack' = Pop(t)
    /\ UNCHANGED <<o, config, exc, ret, cpu, task, faults, ops, ticks, done, hist>>

\* ------------------------------------------------------------ _get_dc (lines 318-339)
get_dc_start(t) ==
    /\ At(t, "get_dc", "start")
    /\ IF ~config.set
       THEN stack' = Push(t, [Top(t) EXCEPT !.pc = "fetched", !.fetches = @ + 1],
                          CallFrame(<<Request("GetConfig", 1)>>, TRUE, DefaultRetries, FALSE))
       ELSE stack' = SetTop(t, [Top(t) EXCEPT !.pc = "lookup", !.had_config = TRUE])
    /\ UNCHANGED <<o, config, exc, ret, cpu, task, faults, ops, ticks, done, hist>>

get_dc_fetched(t) ==
    /\ At(t, "get_dc", "fetched")
    /\ config' = [set |-> TRUE, dcs |-> hist.server_dcs]
    /\ stack' = Goto(t, "lookup")
    /\ UNCHANGED <<o, exc, ret, cpu, task, faults, ops, ticks, done, hist>>

\* lines 329-332
Matching(cfg, dc_id, cdn, c) ==
    {d \in cfg.dcs : d.id = dc_id /\ d.ipv6 = c.use_ipv6 /\ d.cdn = cdn}

\* what a user-level _get_dc did, for the record
GetDcDone(f, end, kind) ==
    [dc |-> f.new_dc, cdn |-> f.cdn, had_config |-> f.had_config, fetches |-> f.fetches,
     lookups |-> f.lookups, end |-> end, exc |-> kind]
NoteGetDc(h, t, f, end, kind) ==
    IF t \in Users /\ Len(stack[t]) = 1 THEN [h EXCEPT !.getdc = GetDcDone(f, end, kind)] ELSE h

\* lines 323-339.  Line 326 reads `.public_keys` of the coroutine object before
\* awaiting it: an AttributeError, which the handler of line 333 does not
\* catch, so a CDN lookup never reaches the `next(...)` of line 329 nor the
\* refresh of lines 337-339.  The StopIteration of a failed non-CDN lookup is
\* re-raised (line 335) and leaves the coroutine as a RuntimeError.
get_dc_lookup(t) ==
    /\ At(t, "get_dc", "lookup")
    /\ IF Top(t).cdn
       THEN /\ exc' = Raise(t, "AttributeError", <<>>)
            /\ UNCHANGED <<stack, ret, hist>>
       ELSE IF Matching(config, Top(t).new_dc, Top(t).cdn, o) # {}
       THEN /\ stack' = Pop(t)
            /\ ret' = [ret EXCEPT ![t] = RetVal("dc", <<Top(t).new_dc>>)]
            /\ hist' = NoteGetDc(hist, t, [Top(t) EXCEPT !.lookups = @ + 1], "returned", "none")
            /\ exc' = exc
       ELSE /\ exc' = Raise(t, "StopIteration", <<>>)
            /\ stack' = SetTop(t, [Top(t) EXCEPT !.lookups = @ + 1])
            /\ UNCHANGED <<ret, hist>>
    /\ UNCHANGED <<o, config, cpu, task, faults, ops, ticks, done>>

\* ------------------------------------------------------------ _get_exported_client (lines 341-389)
\* lines 351-352: the cache holds a session for the data center
Cached(c, dc) == \E s \in c.exported_sessions : s.dc = dc

\* variant: a session already cached for the data center is kept
StoreSession_KeepFirst(c, dc, by) ==
    IF Cached(c, dc) THEN c
    ELSE [c EXCEPT !.exported_sessions = @ \cup {[dc |-> dc, by |-> by]}]

\* line 371: `self._exported_sessions[dc_id] = session`; the session cloned
\* by task `by` replaces whatever the cache held for the data center
StoreSession(c, dc, by) ==
    [c EXCEPT !.exported_sessions = {s \in @ : s.dc # dc} \cup {[dc |-> dc, by |-> by]}]

\* lines 351-358
exported_start(t) ==
    /\ At(t, "exported", "start")
    /\ IF Cached(o, Top(t).new_dc)
       THEN /\ stack' = SetTop(t, [Top(t) EXCEPT !.pc = "child_connect", !.export_auth = FALSE])
            /\ cpu' = "none"
       ELSE /\ stack' = Push(t, [Top(t) EXCEPT !.pc = "got_dc"], GetDcFrame(Top(t).new_dc, FALSE))
            /\ cpu' = cpu
    /\ UNCHANGED <<o, config, exc, ret, task, faults, ops, ticks, done, hist>>

\* lines 360-362: export the authorization to the new data center
exported_got_dc(t) ==
    /\ At(t, "exported", "got_dc")
    /\ stack' = Push(t, [Top(t) EXCEPT !.pc = "exported"],
                     CallFrame(<<Request("ExportAuthorization", 1)>>, TRUE, DefaultRetries, FALSE))
    /\ hist' = [hist EXCEPT !.exports = @ + 1]
    /\ UNCHANGED <<o, config, exc, ret, cpu, task, faults, ops, ticks, done>>

\* variant: the cloned session is not cached
exported_exported_NoCache(t) ==
    /\ At(t, "exported", "exported")
    /\ stack' = SetTop(t, [Top(t) EXCEPT !.pc = "child_connect", !.export_auth = TRUE])
    /\ cpu' = "none"
    /\ UNCHANGED <<o, config, exc, ret, task, faults, ops, ticks, done, hist>>

\* lines 369-378: the cloned session is cached; the child client connects
exported_exported(t) ==
    /\ At(t, "exported", "exported")
    /\ o' = StoreSession(o, Top(t).new_dc, t)
    /\ hist' = [hist EXCEPT !.stores = Append(@, t)]
    /\ stack' = SetTop(t, [Top(t) EXCEPT !.pc = "child_connect", !.export_auth = TRUE])
    /\ cpu' = "none"
    /\ UNCHANGED <<config, exc, ret, task, faults, ops, ticks, done>>

\* line 378: `await client.connect(_sync_updates=False)`; the value is not
\* looked at.  The child is another instance of the class: only the outcome
\* of its connect() is kept
exported_child_connect(t) ==
    /\ Parked(t, "exported", "child_connect")
    /\ \E ok \in BOOLEAN :
          /\ IF ok THEN faults' = faults ELSE faults > 0 /\ faults' = faults - 1
          /\ IF Top(t).export_auth
             THEN /\ stack' = SetTop(t, [Top(t) EXCEPT !.pc = "child_import",
                                                       !.child_connected = ok])
                  /\ cpu' = "none"
                  /\ UNCHANGED <<ret, hist>>
             ELSE \* lines 386-389
                  /\ stack' = Pop(t)
                  /\ cpu' = t
                  /\ ret' = [ret EXCEPT ![t] = RetVal("client", <<Top(t).new_dc>>)]
                  /\ hist' = [hist EXCEPT !.clients = Append(@,
                                [how |-> "reused", exports |-> hist.exports,
                                 imports |-> hist.imports, began |-> Top(t).began])]
    /\ UNCHANGED <<o, config, exc, task, ops, ticks, done>>

\* lines 379-382: the child imports the authorization
exported_child_import(t) ==
    /\ Parked(t, "exported", "child_import")
    /\ cpu' = t
    /\ IF ~Top(t).child_connected
       THEN \* the child's connect() failed and disconnected it
            /\ exc' = Raise(t, "NoConnect", <<>>)
            /\ UNCHANGED <<stack, ret, hist, faults>>
       ELSE \E ok \in BOOLEAN :
            IF ok
            THEN /\ stack' = Pop(t)
                 /\ ret' = [ret EXCEPT ![t] = RetVal("client", <<Top(t).new_dc>>)]
                 /\ hist' = [hist EXCEPT !.imports = @ + 1, !.clients = Append(@,
                                [how |-> "imported", exports |-> hist.exports,
                                 imports |-> hist.imports + 1, began |-> Top(t).began])]
                 /\ UNCHANGED <<exc, faults>>
            ELSE /\ faults > 0 /\ faults' = faults - 1
                 /\ exc' = Raise(t, "RPCOther", <<>>)
                 /\ UNCHANGED <<stack, ret, hist>>
    /\ UNCHANGED <<o, config, task, ops, ticks, done>>

\* ------------------------------------------------------------ background loops
\* The ping and state intervals (a minute, an hour) are long against the
\* transport timeout that bounds a link set-up: a periodic timer does not
\* expire while a connect or a key exchange is under way
SettingUp == \E t \in Tasks : stack[t] # <<>> /\ Top(t).pc \in {"sender_connect", "auth"}

\* lines 627-631
ping_loop(t) ==
    /\ At(t, "ping", "start")
    /\ IF o.user_connected
       THEN /\ stack' = Push(t, [Top(t) EXCEPT !.pc = "pinged"],
                  CallFrame(<<Request("Ping", 1)>>, TRUE, DefaultRetries, FALSE))
            /\ o' = o
       ELSE /\ stack' = Pop(t)
            /\ o' = [o EXCEPT !.ping_loop = FALSE]
    /\ UNCHANGED <<config, exc, ret, cpu, task, faults, ops, ticks, done, hist>>

ping_pinged(t) ==
    /\ At(t, "ping", "pinged")
    /\ stack' = Goto(t, "sleep")
    /\ cpu' = "none"
    /\ UNCHANGED <<o, config, exc, ret, task, faults, ops, ticks, done, hist>>

ping_sleep(t) ==
    /\ Parked(t, "ping", "sleep")
    /\ ticks > 0 /\ ~SettingUp
    /\ ticks' = ticks - 1
    /\ stack' = Goto(t, "start")
    /\ cpu' = t
    /\ UNCHANGED <<o, config, exc, ret, task, faults, ops, done, hist>>

\* lines 633-636
state_loop(t) ==
    /\ At(t, "state", "start")
    /\ IF o.user_connected
       THEN stack' = Goto(t, "sleep") /\ cpu' = "none"
       ELSE stack' = Pop(t) /\ cpu' = cpu
    /\ UNCHANGED <<o, config, exc, ret, task, faults, ops, ticks, done, hist>>

\* line 636: sender.send(GetStateRequest()), not through __call__
state_sleep(t) ==
    /\ Parked(t, "state", "sleep")
    /\ ticks > 0 /\ ~SettingUp
    /\ ticks' = ticks - 1
    /\ cpu' = t
    /\ IF o.connected
       THEN /\ hist' = NoteSend(hist, FALSE)
            /\ stack' = Goto(t, "start")
            /\ exc' = exc
       ELSE /\ exc' = Raise(t, "Reset", <<>>)
            /\ UNCHANGED <<hist, stack>>
    /\ UNCHANGED <<o, config, ret, task, faults, ops, done>>

\* lines 639-641
recv_start(t) ==
    /\ At(t, "recv", "start")
    /\ o' = [o EXCEPT !.idling = TRUE]
    /\ stack' = SetTop(t, [Top(t) EXCEPT !.pc = "loop", !.need_reconnect = FALSE])
    /\ UNCHANGED <<config, exc, ret, cpu, task, faults, ops, ticks, done, hist>>

\* lines 642-647 and 672: the loop's condition; the lock is taken at once
\* when it is free, else the task waits for it
recv_loop(t) ==
    /\ At(t, "recv", "loop")
    /\ IF ~o.user_connected
       THEN /\ o' = [o EXCEPT !.idling = FALSE]
            /\ stack' = Pop(t)
            /\ cpu' = cpu
       ELSE IF ~Top(t).need_reconnect
       THEN /\ stack' = Goto(t, "receive")
            /\ cpu' = "none"
            /\ o' = o
       ELSE IF o.reconnect_lock = "free"
       THEN /\ o' = [o EXCEPT !.reconnect_lock = t]
            /\ stack' = SetTop(t, [Top(t) EXCEPT !.pc = "reconnect", !.need_reconnect = FALSE])
            /\ cpu' = cpu
       ELSE /\ stack' = SetTop(t, [Top(t) EXCEPT !.pc = "wait_lock", !.need_reconnect = FALSE])
            /\ cpu' = "none"
            /\ o' = o
    /\ UNCHANGED <<config, exc, ret, task, faults, ops, ticks, done, hist>>

recv_wait_lock(t) ==
    /\ Parked(t, "recv", "wait_lock")
    /\ o.reconnect_lock = "free"
    /\ o' = [o EXCEPT !.reconnect_lock = t]
    /\ stack' = Goto(t, "reconnect")
    /\ cpu' = t
    /\ UNCHANGED <<config, exc, ret, task, faults, ops, ticks, done, hist>>

\* line 648: `while self._user_connected and not await self._reconnect()`
recv_reconnect(t) ==
    /\ At(t, "recv", "reconnect")
    /\ IF o.user_connected
       THEN /\ stack' = Push(t, [Top(t) EXCEPT !.pc = "reconnected"], ReconnectFrame(0))
            /\ o' = o
       ELSE /\ stack' = Goto(t, "send")
            /\ o' = [o EXCEPT !.reconnect_lock = "free"]
    /\ UNCHANGED <<config, exc, ret, cpu, task, faults, ops, ticks, done, hist>>

\* lines 648-650.  A falsy _reconnect() means connect() failed, and connect()
\* then called disconnect(), which cancelled this very task: the sleep of
\* line 650 is only ever left by the CancelledError
recv_reconnected(t) ==
    /\ At(t, "recv", "reconnected")
    /\ IF Truthy(ret[t])
       THEN /\ stack' = Goto(t, "send")
            /\ o' = [o EXCEPT !.reconnect_lock = "free"]
            /\ cpu' = cpu
       ELSE /\ stack' = Goto(t, "retry_sleep")
            /\ o' = o
            /\ cpu' = "none"
    /\ UNCHANGED <<config, exc, ret, task, faults, ops, ticks, done, hist>>

\* lines 657-667: the state refresh after the reconnection, then receive; a
\* send on a closed link is a ConnectionError: back off
recv_send(t) ==
    /\ At(t, "recv", "send")
    /\ cpu' = "none"
    /\ IF o.connected
       THEN /\ hist' = NoteSend(hist, FALSE)
            /\ stack' = Goto(t, "receive")
       ELSE /\ hist' = hist
            /\ stack' = SetTop(t, [Top(t) EXCEPT !.pc = "backoff", !.need_reconnect = TRUE])
    /\ UNCHANGED <<o, config, exc, ret, task, faults, ops, ticks, done>>

\* line 660: the receive handles the answer to a pending round trip
recv_receive_deliver(t) ==
    /\ Parked(t, "recv", "receive")
    /\ LinkUp(t)
    /\ \E T \in {x \in Tasks : Awaiting(x)} : \E v \in Vectors(Top(T)) :
          /\ IF IsFault(v) THEN faults > 0 /\ faults' = faults - 1
                           ELSE faults' = faults
          /\ stack' = Deliver(stack, T, v)
    /\ UNCHANGED <<o, config, exc, ret, cpu, task, ops, ticks, done, hist>>

\* lines 664-667: ConnectionError while receiving
recv_receive_reset(t) ==
    /\ Parked(t, "recv", "receive")
    /\ ~LinkUp(t)
    /\ stack' = SetTop(t, [Top(t) EXCEPT !.pc = "backoff", !.need_reconnect = TRUE,
                                         !.reset = FALSE])
    /\ UNCHANGED <<o, config, exc, ret, cpu, task, faults, ops, ticks, done, hist>>

\* lines 668-670: any other error ends the task
recv_receive_error(t) ==
    /\ Parked(t, "recv", "receive")
    /\ LinkUp(t)
    /\ faults > 0
    /\ faults' = faults - 1
    /\ exc' = Raise(t, "BrokenAuthKey", <<>>)
    /\ cpu' = t
    /\ UNCHANGED <<o, config, stack, ret, task, ops, ticks, done, hist>>

recv_backoff(t) ==
    /\ Parked(t, "recv", "backoff")
    /\ stack' = Goto(t, "loop")
    /\ cpu' = t
    /\ UNCHANGED <<o, config, exc, ret, task, faults, ops, ticks, done, hist>>

\* the pcs of _recv_loop_impl inside its try block (lines 643-660)
RecvInTry == {"receive", "wait_lock", "reconnect", "reconnected", "retry_sleep", "send"}

\* ------------------------------------------------------------ scheduling
\* a task created by ensure_future runs its first step
CreatedBefore(l) ==
    CASE l = "recv" -> {}
      [] l = "ping" -> {"recv"}
      [] l = "state" -> {"recv", "ping"}

loop_first_step(l) ==
    /\ l \in Loops /\ cpu = "none" /\ task[l] = "new" /\ o.cancelled = {}
    /\ \A k \in CreatedBefore(l) : task[k] # "new"
    /\ task' = [task EXCEPT ![l] = "live"]
    /\ cpu' = l
    /\ UNCHANGED <<o, config, stack, exc, ret, faults, ops, ticks, done, hist>>

\* the CancelledError of Task.cancel() reaches the task at its suspension point:
\* a `with` block releases the lock, _recv_loop_impl's bare except clears idling
cancel_delivered(l) ==
    /\ l \in o.cancelled /\ cpu = "none"
    /\ o' = [o EXCEPT !.cancelled = @ \ {l},
                      !.reconnect_lock = IF @ = l THEN "free" ELSE @,
                      !.idling = IF l = "recv" /\ task[l] = "live"
                                    /\ stack[l] # <<>> /\ stack[l][1].pc \in RecvInTry
                                 THEN FALSE ELSE @]
    /\ stack' = [stack EXCEPT ![l] = <<>>]
    /\ task' = [task EXCEPT ![l] = "none"]
    /\ exc' = [exc EXCEPT ![l] = NoExc]
    /\ ret' = [ret EXCEPT ![l] = RetNone]
    /\ UNCHANGED <<config, cpu, faults, ops, ticks, done, hist>>

\* the network drops the link
link_drop(t) ==
    /\ t = Main
    /\ cpu = "none" /\ o.connected /\ o.cancelled = {}
    /\ faults > 0
    /\ faults' = faults - 1
    /\ o' = [o EXCEPT !.connected = FALSE]
    /\ stack' = DropPending(stack)
    /\ UNCHANGED <<config, exc, ret, cpu, task, ops, ticks, done, hist>>

\* ------------------------------------------------------------ exceptions
RpcErrors == {"Flood", "Unauthorized", "AuthKey", "RPCOther", "Migrate", "Server"}

\* an exception leaves the innermost frame, or is handled by it
unwind(t) ==
    /\ cpu = t /\ exc[t] # NoExc /\ stack[t] # <<>>
    /\ LET f == Top(t)
           e == exc[t]
       IN CASE f.fn = "call" ->
                 \* line 480: the `with` block releases the lock
                 /\ o' = IF f.pc = "reconnected" THEN [o EXCEPT !.reconnect_lock = "free"] ELSE o
                 /\ done' = [done EXCEPT ![t] = CallDone(t, f, "raised", e, RetNone)]
                 /\ stack' = Pop(t)
                 /\ UNCHANGED <<exc, ret, hist>>
            [] f.fn = "connect" /\ f.pc = "synced" /\ e.kind = "Unauthorized" ->
                 \* lines 207-208
                 /\ o' = [o EXCEPT !.authorized = "False"]
                 /\ stack' = Pop(t)
                 /\ ret' = [ret EXCEPT ![t] = RetVal("True", <<>>)]
                 /\ exc' = [exc EXCEPT ![t] = NoExc]
                 /\ UNCHANGED <<done, hist>>
            [] f.fn = "connect" /\ f.pc = "synced" /\ e.kind = "AuthKey" ->
                 \* lines 221-228: `return self.connect(...)` hands back the
                 \* coroutine object, which nobody awaits
                 /\ o' = [disconnect(o) EXCEPT !.auth_key = 0]
                 /\ hist' = NoteDisconnect(hist)
                 /\ stack' = DropPending(Pop(t))
                 /\ ret' = [ret EXCEPT ![t] = RetVal("coroutine", <<>>)]
                 /\ exc' = [exc EXCEPT ![t] = NoExc]
                 /\ done' = done
            [] f.fn = "connect" /\ f.pc = "synced" /\ e.kind \in RpcErrors \ {"Unauthorized", "AuthKey"} ->
                 \* lines 230-234
                 /\ o' = disconnect(o)
                 /\ hist' = NoteDisconnect(hist)
                 /\ stack' = DropPending(Pop(t))
                 /\ ret' = [ret EXCEPT ![t] = RetVal("False", <<>>)]
                 /\ exc' = [exc EXCEPT ![t] = NoExc]
                 /\ done' = done
            [] f.fn = "reconnect" /\ f.new_dc = 0 /\ e.kind = "Reset" ->
                 \* lines 289-291
                 /\ stack' = Pop(t)
                 /\ ret' = [ret EXCEPT ![t] = RetVal("False", <<>>)]
                 /\ exc' = [exc EXCEPT ![t] = NoExc]
                 /\ UNCHANGED <<o, done, hist>>
            [] f.fn = "recv" ->
                 \* lines 668-670, and the lock of line 647
                 /\ o' = [o EXCEPT !.idling = IF f.pc \in RecvInTry THEN FALSE ELSE @,
                                   !.reconnect_lock = IF @ = t THEN "free" ELSE @]
                 /\ stack' = Pop(t)
                 /\ UNCHANGED <<exc, ret, done, hist>>
            [] f.fn = "get_dc" ->
                 /\ stack' = Pop(t)
                 /\ hist' = NoteGetDc(hist, t, f, "raised", e.kind)
                 /\ UNCHANGED <<o, exc, ret, done>>
            [] OTHER ->
                 /\ stack' = Pop(t)
                 /\ UNCHANGED <<o, exc, ret, done, hist>>
    /\ UNCHANGED <<config, cpu, task, faults, ops, ticks>>

\* the task's coroutine has finished: the event loop takes over
task_end(t) ==
    /\ cpu = t /\ stack[t] = <<>>
    /\ cpu' = "none"
    /\ task' = [task EXCEPT ![t] = IF t \in Users THEN "idle" ELSE "none"]
    /\ exc' = [exc EXCEPT ![t] = NoExc]
    /\ hist' = IF t \in Users
               THEN [hist EXCEPT !.result = [hist.result EXCEPT ![t] =
                                    IF exc[t] = NoExc THEN ret[t].tag ELSE exc[t].kind],
                                 !.userWants = IF hist.op[t] = "connect"
                                               THEN exc[t] = NoExc /\ ret[t].tag = "True"
                                               ELSE @]
               ELSE hist
    /\ ret' = [ret EXCEPT ![t] = RetNone]
    /\ UNCHANGED <<o, config, stack, faults, ops, ticks, done>>

\* ------------------------------------------------------------ specification
\* the configuration the server hands out: every data center, over IPv4 and IPv6
ServerDcs == {[id |-> d, ipv6 |-> v, cdn |-> FALSE] : d \in DCs, v \in BOOLEAN}

\* The runs explored: a client that is not logged in (no background loops) used
\* by the main task alone or together with a second invoking task; a logged-in
\* client, whose connect() starts the three loops, used by the main task under
\* faults and by two tasks without faults; a client whose main task resolves
\* data centers and borrows clients for them; and a client from which two
\* tasks borrow a client for the same data center.
Envelopes ==
    {[logged_in |-> FALSE, faults |-> MaxFaults, ticks |-> 0,
      kinds |-> [u \in Users |-> {"disconnect", "invoke", "batch"}],
      ops |-> [u \in Users |-> IF u = Main THEN MaxOps ELSE 0]],
     [logged_in |-> FALSE, faults |-> MaxFaults - 1, ticks |-> 0,
      kinds |-> [u \in Users |-> {"invoke"}],
      ops |-> [u \in Users |-> IF u = Main THEN MaxOps - 1 ELSE 1]],
     [logged_in |-> TRUE, faults |-> MaxFaults - 1, ticks |-> MaxTicks,
      kinds |-> [u \in Users |-> {"disconnect", "invoke"}],
      ops |-> [u \in Users |-> IF u = Main THEN MaxOps - 1 ELSE 0]],
     [logged_in |-> TRUE, faults |-> MaxFaults, ticks |-> 0,
      kinds |-> [u \in Users |-> {"invoke"}],
      ops |-> [u \in Users |-> IF u = Main THEN MaxOps - 2 ELSE 0]],
     [logged_in |-> TRUE, faults |-> 0, ticks |-> 0,
      kinds |-> [u \in Users |-> IF u = Main THEN {"disconnect"} ELSE {"invoke"}],
      ops |-> [u \in Users |-> IF u = Main THEN MaxOps - 1 ELSE 1]],
     [logged_in |-> FALSE, faults |-> MaxFaults - 1, ticks |-> 0,
      kinds |-> [u \in Users |-> {"get_dc", "exported"}],
      ops |-> [u \in Users |-> IF u = Main THEN MaxOps ELSE 0]],
     [logged_in |-> FALSE, faults |-> 0, ticks |-> 0,
      kinds |-> [u \in Users |-> {"exported"}],
      ops |-> [u \in Users |-> IF u = Main THEN MaxOps - 1 ELSE 1]]}

Init ==
    /\ o \in {[user_connected |-> FALSE, authorized |-> "None", first_request |-> TRUE,
               idling |-> FALSE, reconnect_lock |-> "free",
               recv_loop |-> FALSE, ping_loop |-> FALSE, state_loop |-> FALSE,
               dc |-> DEFAULT_DC_ID, auth_key |-> k, flood_sleep_threshold |-> 1,
               exported_sessions |-> {},
               use_ipv6 |-> FALSE, connected |-> FALSE, cancelled |-> {}]
              : k \in {0, DEFAULT_DC_ID}}
    /\ config = [set |-> FALSE, dcs |-> {}]
    /\ stack = [t \in Tasks |-> <<>>]
    /\ exc = [t \in Tasks |-> NoExc]
    /\ ret = [t \in Tasks |-> RetNone]
    /\ cpu = "none"
    /\ task = [t \in Tasks |-> IF t \in Users THEN "idle" ELSE "none"]
    /\ done = [t \in Tasks |-> NoDone]
    /\ \E e \in Envelopes :
          /\ faults = e.faults
          /\ ops = e.ops
          /\ ticks = e.ticks
          /\ hist = [logged_in |-> e.logged_in, server_dcs |-> ServerDcs,
                     kinds |-> e.kinds, getdc |-> NoGetDc,
                     exported_calls |-> 0, exports |-> 0, imports |-> 0, clients |-> <<>>,
                     stores |-> <<>>,
                     userWants |-> FALSE, fresh |-> "none",
                     keyed |-> IF o.auth_key = 0 THEN {} ELSE {o.auth_key},
                     op |-> [t \in Users |-> "none"],
                     result |-> [t \in Users |-> "none"]]

Next ==
    \E t \in Tasks :
        \/ UserConnect(t) \/ UserDisconnect(t) \/ UserInvoke(t)
        \/ UserGetDc(t) \/ UserGetExported(t)
        \/ exported_start(t) \/ exported_got_dc(t) \/ exported_exported(t)
        \/ exported_child_connect(t) \/ exported_child_import(t)
        \/ call_start(t) \/ call_loop(t) \/ call_result(t) \/ call_sleep(t)
        \/ call_reconnected(t)
        \/ invoke_start(t) \/ invoke_auth(t) \/ invoke_init(t) \/ invoke_bootstrapped(t)
        \/ invoke_send(t) \/ invoke_wait(t) \/ invoke_recv_deliver(t)
        \/ invoke_recv_error(t) \/ invoke_recv_reset(t) \/ invoke_recv_other(t)
        \/ invoke_post(t) \/ invoke_flood_sleep(t) \/ invoke_migrated(t)
        \/ connect_start(t) \/ connect_sender_ok(t) \/ connect_sender_fail(t)
        \/ connect_synced(t)
        \/ reconnect_start(t) \/ reconnect_got_dc(t) \/ reconnect_connected(t)
        \/ get_dc_start(t) \/ get_dc_fetched(t) \/ get_dc_lookup(t)
        \/ ping_loop(t) \/ ping_pinged(t) \/ ping_sleep(t)
        \/ state_loop(t) \/ state_sleep(t)
        \/ recv_start(t) \/ recv_loop(t) \/ recv_wait_lock(t) \/ recv_reconnect(t)
        \/ recv_reconnected(t) \/ recv_send(t)
        \/ recv_receive_deliver(t) \/ recv_receive_reset(t) \/ recv_receive_error(t)
        \/ recv_backoff(t)
        \/ loop_first_step(t) \/ cancel_delivered(t)
        \/ unwind(t) \/ task_end(t)
        \/ link_drop(t)

Spec == Init /\ [][Next]_vars

\* ------------------------------------------------------------ properties
Frames(t) == {stack[t][i] : i \in 1..Len(stack[t])}
Reconnecting(t) == \E f \in Frames(t) : f.fn = "call" /\ f.pc = "reconnected"

\* C1: a call whose attempts all yielded no result made exactly `retries`
\* attempts and ended with the retry-exhaustion error, raised by itself and
\* naming its requests.
C1_RetryExhaustion ==
    \A t \in Users :
        (done[t].end # "none" /\ done[t].fails = done[t].attempts)
        => /\ done[t].end = "raised"
           /\ done[t].exc = "RetriesReached" /\ done[t].own
           /\ done[t].excwhich = done[t].which
           /\ done[t].attempts = done[t].retries

\* C2, strict form: a call that returned after k attempts without result made
\* exactly k reconnection attempts.
C2_ExactlyKReconnects ==
    \A t \in Users :
        done[t].end = "returned" => done[t].reconns = done[t].fails

\* C2, with skipped reconnections: a call that returned after k attempts without result backed
\* off k times, and each back-off ended in one reconnection attempt or, the
\* reconnection lock being held at that moment, in none.
C2_ReconnectOrSkip ==
    \A t \in Users :
        done[t].end = "returned"
        => /\ done[t].attempts = done[t].fails + 1
           /\ done[t].reconns + done[t].skips = done[t].fails
           /\ done[t].exc = "none"

C2_Witness ==
    \E t \in Users :
        /\ done[t].end = "returned" /\ done[t].fails > 0 /\ done[t].reconns > 0
        /\ done[t].which = <<"X">>

\* C3: the re-run after a migration error to DC X is given the same envelopes
\* and ordering flag as the attempt, on a session bound to DC X.
C3_MigrationRerun ==
    \A t \in Tasks : \A f \in Frames(t) :
        (f.fn = "invoke" /\ f.migrated # 0 /\ f.pc = "start")
        => /\ o.dc = f.migrated
           /\ f.listarg
           /\ Kinds(f.reqs) = Kinds(f.orig_reqs)
           /\ f.ordered = f.orig_ordered

\* C4, waiting form: an invocation whose back-off ends while another task holds
\* the reconnection lock waits for the lock.
C4_SecondWaits ==
    [][\A t \in Users :
          (/\ stack[t] # <<>> /\ Top(t).fn = "call" /\ Top(t).pc = "sleep"
           /\ LockHeld(o) /\ o.reconnect_lock # t)
          => stack'[t] \in {stack[t], <<>>}]_vars

\* C4, skipping form: at most one retry-path reconnection runs at a time, and an
\* invocation whose back-off ends while the lock is held does not wait: it
\* skips the reconnection and goes on to its next attempt.
C4_OneReconnectSecondSkips ==
    [][/\ \A t1, t2 \in Tasks : (Reconnecting(t1) /\ Reconnecting(t2)) => t1 = t2
       /\ \A t \in Tasks : Cardinality({i \in 1..Len(stack[t]) :
               stack[t][i].fn = "call" /\ stack[t][i].pc = "reconnected"}) <= 1
       /\ \A t \in Users :
             (/\ stack[t] # <<>> /\ Top(t).fn = "call" /\ Top(t).pc = "sleep"
              /\ LockHeld(o) /\ cpu' = t)
             => /\ o' = o
                /\ stack'[t] = Below(t) \o <<[Top(t) EXCEPT !.pc = "loop", !.retry = @ + 1,
                                                            !.skips = @ + 1]>>
      ]_vars

C4_Witness ==
    \E t1, t2 \in Users :
        /\ t1 # t2 /\ Reconnecting(t1)
        /\ \E f \in Frames(t2) : f.fn = "call" /\ f.skips > 0 /\ f.fails > 0
        /\ \E f \in Frames(t1) : f.fn = "call" /\ f.reqs[1].kind = "X"

\* the flood error an attempt is about to act on: its wait, or 0
FloodWait(f) ==
    LET i == FirstError(f.reqs)
    IN IF i # 0 /\ f.reqs[i].rpc_error = "Flood" THEN f.reqs[i].arg ELSE 0

\* C5: a flood wait up to the threshold makes the attempt sleep exactly that
\* long and then yield no result (one attempt of the retry loop is used up);
\* a longer one is raised at once, without sleeping, and ends the call with
\* no further attempt.
C5_FloodWait ==
    [][/\ \A t \in Tasks :
             (At(t, "invoke", "post") /\ FloodWait(Top(t)) > 0)
             => IF FloodWait(Top(t)) <= o.flood_sleep_threshold
                THEN /\ exc'[t] = NoExc /\ cpu' = "none"
                     /\ Len(stack'[t]) = Len(stack[t])
                     /\ Top(t)'.pc = "flood_sleep" /\ Top(t)'.slept = FloodWait(Top(t))
                ELSE /\ exc'[t].kind = "Flood" /\ cpu' = t
                     /\ Top(t)'.pc = "post" /\ Top(t)'.slept = 0
       /\ \A t \in Tasks :
             (stack[t] # <<>> /\ Top(t).fn = "invoke" /\ Top(t).pc = "flood_sleep" /\ cpu' = t)
             => /\ stack'[t] = Below(t)
                /\ ret'[t].tag = "None" /\ ret'[t].slept = FloodWait(Top(t))
                /\ exc'[t] = NoExc
       /\ \A t \in Users :
             done[t].exc = "Flood"
             => /\ done[t].end = "raised"
                /\ done[t].attempts = done[t].fails + 1
                /\ done[t].slept <= done[t].fails * o.flood_sleep_threshold
      ]_vars

C5_Witness ==
    \E t \in Users :
        /\ done[t].exc = "Flood" /\ done[t].slept > 0 /\ done[t].which = <<"X">>

\* C6: the 'invoked without connecting' error ends a call only when the user
\* never connected or has disconnected.
C6_NoConnectOnlyIfUserDisconnected ==
    \A t \in Users :
        done[t].exc = "NoConnect" => ~done[t].wanted

\* the server's configuration lists the data center, as a CDN or not
Known(dc_id, cdn) ==
    \E d \in hist.server_dcs : d.id = dc_id /\ d.cdn = cdn /\ d.ipv6 = o.use_ipv6
\* configuration fetches of a _get_dc beyond the one that fills an empty cache
Forced(g) == g.fetches - (IF g.had_config THEN 0 ELSE 1)

\* C7: with the configuration at hand, resolving an unknown data center id ends
\* in an error: for a non-CDN id after one lookup and no forced refresh, for a
\* CDN id after at most one forced refresh and a second lookup.
C7_ResolveDC ==
    LET g == hist.getdc
    IN (g.end # "none" /\ config.set /\ ~Known(g.dc, g.cdn))
       => /\ g.end = "raised"
          /\ IF g.cdn THEN Forced(g) <= 1 /\ g.lookups = 2
                      ELSE Forced(g) = 0 /\ g.lookups = 1

\* C8: a _get_exported_client that starts after one for the same data center
\* has returned reuses the cached session: it issues no export and its child
\* imports nothing; when the first such call returned, one export had been
\* issued and one import made.
C8_ExportedReuse ==
    /\ \A i, j \in 1..Len(hist.clients) :
          (i < j /\ hist.clients[j].began >= i)
                => /\ hist.clients[j].how = "reused"
                   /\ hist.clients[j].exports = hist.clients[i].exports
                   /\ hist.clients[j].imports = hist.clients[i].imports
    /\ (/\ Len(hist.clients) >= 1 /\ hist.exported_calls = Len(hist.clients)
        /\ \A j \in 1..Len(hist.clients) : hist.clients[j].began = j - 1)
       => /\ hist.clients[1].how = "imported"
          /\ hist.exports = 1 /\ hist.imports = 1

C8_Witness ==
    /\ Len(hist.clients) = 2 /\ hist.exported_calls = 2
    /\ hist.exports = 1 /\ hist.imports = 1

\* C9: the first request sent over the link after a disconnect() is wrapped in
\* the protocol-init envelope.
C9_FirstRequestWrapped ==
    hist.fresh # "bare"

\* C10: disconnect() leaves the client user-disconnected, the link closed, the
\* three task handles absent and first-request-pending set, and a second
\* disconnect() changes nothing.
C10_DisconnectIdempotent ==
    LET d == disconnect(o)
    IN /\ ~d.user_connected /\ ~d.connected
       /\ ~d.recv_loop /\ ~d.ping_loop /\ ~d.state_loop
       /\ d.first_request
       /\ disconnect(d) = d
       /\ hist.op[Main] = "disconnect" /\ cpu = "none" /\ task[Main] = "idle"
          /\ hist.result[Main] = "none" /\ ~o.user_connected
          => o = disconnect(o)

C10_Witness ==
    /\ hist.op[Main] = "disconnect" /\ o.cancelled = Loops
    /\ o = disconnect(o)

\* C11: what connect() hands back is the boolean outcome of a connection
\* attempt, also after a broken or duplicated auth key made it retry.
C11_ConnectReturnsOutcome ==
    /\ \A t \in Tasks : ret[t].tag # "coroutine"
    /\ \A t \in Users : hist.op[t] = "connect" => hist.result[t] # "coroutine"

C13_ReturnShape ==
    \A t \in Users :
        (done[t].end = "returned" /\ done[t].which[1] = "X")
        => IF done[t].single
           THEN done[t].shape = "result" /\ done[t].val = <<1>>
           ELSE /\ done[t].shape = "results"
                /\ done[t].val = [i \in 1..Len(done[t].which) |-> i]

C13_Witness ==
    \E t \in Users :
        /\ done[t].end = "returned" /\ ~done[t].single /\ done[t].wrapped
        /\ done[t].val = <<1, 2>>

\* the tasks with a reconnection sequence in progress: an activation of
\* _reconnect, from its start to the return of the connect() it runs
ReconnectsInProgress ==
    {t \in Tasks : \E f \in Frames(t) : f.fn = "reconnect"}

\* C14: at most one task has a reconnection sequence in progress at any time,
\* whichever path started it: the retry loop of an invocation, the receive
\* task, or a migration.
C14_OneReconnection ==
    Cardinality(ReconnectsInProgress) <= 1

\* C15: while the user has not called disconnect(), a reconnection attempt of
\* the receive task that failed leaves the client user-connected and the
\* receive task alive (not cancelled, its handle kept), so that its loop goes
\* on to the next attempt.
C15_RecvKeepsReconnecting ==
    (/\ hist.userWants
     /\ stack["recv"] # <<>> /\ Top("recv").fn = "recv"
     /\ \/ Top("recv").pc = "retry_sleep"
        \/ Top("recv").pc = "reconnected" /\ ~Truthy(ret["recv"]))
    => /\ o.user_connected
       /\ "recv" \notin o.cancelled /\ o.recv_loop

\* the receive task is backing off after a connection error, or reconnecting
RecvRecovering ==
    /\ stack["recv"] # <<>> /\ stack["recv"][1].fn = "recv"
    /\ stack["recv"][1].pc \in {"backoff", "wait_lock", "reconnect", "reconnected",
                                "retry_sleep"}

\* C16: an invocation that starts while the receive task is backing off after
\* a connection error, or reconnecting, computes call_receive = true (the
\* idling flag having been cleared) and receives inline.
C16_InlineReceiveWhileRecovering ==
    [][\A t \in Tasks \ {"recv"} :
          (At(t, "call", "start") /\ RecvRecovering /\ "recv" \notin o.cancelled)
          => Top(t)'.call_receive
      ]_vars

\* C17: an attempt whose send/receive cycle was aborted by an unknown-type
\* decode error, a timeout or a broken auth key does not clear
\* first-request-pending: the flag is still set when the attempt ends, so the
\* next attempt wraps what it sends.
C17_AbortedAttemptKeepsFirstRequest ==
    [][\A t \in Tasks :
          (At(t, "invoke", "post") /\ Top(t).aborted # "none" /\ o.first_request)
          => o'.first_request
      ]_vars

\* C18: what is sent carries the protocol-init envelope at most once (the
\* bootstrap configuration call that precedes a batch exactly once), and a
\* batch is sent without it.
C18_BootstrapWrappedOnce ==
    \A t \in Tasks : \A f \in Frames(t) :
        (f.fn = "invoke" /\ f.pc \in {"recv", "wait"})
        => /\ \A j \in 1..Len(f.reqs) : f.reqs[j].wrap <= 1
           /\ (Len(f.reqs) > 1 => \A j \in 1..Len(f.reqs) : f.reqs[j].wrap = 0)

\* the invocations (activations of __call__) on a task's stack
Calls(stk) == {i \in 1..Len(stk) : stk[i].fn = "call"}

\* C19: a background task is created only by a connect() that leaves the
\* client authorized, and only when no instance of it exists; the tasks exist
\* only while the client is user-connected, a disconnect() cancelling them;
\* and a cancelled task sends nothing, receives nothing and starts no
\* invocation any more.
C19_BackgroundTasks ==
    [][/\ \A l \in Loops :
             (task'[l] = "new" /\ (task[l] # "new" \/ stack'[l] # stack[l]))
             => /\ task[l] = "none" /\ l \notin o.cancelled
                /\ \E a \in Tasks : cpu' = a /\ stack[a] # <<>> /\ Top(a).fn = "connect"
                /\ o'.authorized = "True" /\ o'.user_connected
                /\ LoopHandle(o', l) /\ ~LoopHandle(o, l)
       /\ \A l \in Loops :
             (task[l] # "none" /\ l \notin o.cancelled) => o.user_connected
       /\ \A l \in Loops :
             (l \in o.cancelled /\ stack'[l] # <<>>)
             => /\ stack'[l][Len(stack'[l])].pc \in {"recv", "wait", "receive"}
                   => stack'[l] = stack[l]
                /\ Cardinality(Calls(stack'[l])) <= Cardinality(Calls(stack[l]))
      ]_vars

C19_Witness ==
    /\ hist.op[Main] = "disconnect" /\ task[Main] = "idle"
    /\ o.authorized = "True" /\ ~o.user_connected
    /\ o.cancelled = {} /\ \A l \in Loops : task[l] = "none"

\* the innermost activation of a stack is _invoke, at one of the places pcs
InvokeAt(stk, pcs) ==
    stk # <<>> /\ stk[Len(stk)].fn = "invoke" /\ stk[Len(stk)].pc \in pcs

Ids(reqs) == [j \in 1..Len(reqs) |-> reqs[j].id]

\* the requests that activation i of a stack, an _invoke that was handed a
\* list, works on are those of the activation that called it
SameBatch(stk, i) ==
    (i > 1 /\ stk[i].fn = "invoke" /\ stk[i].listarg /\ stk[i - 1].fn \in {"call", "invoke"})
       => Ids(stk[i].reqs) = Ids(stk[i - 1].reqs)

\* C21: when the send/receive cycle of an attempt ended without an exception,
\* the attempt's outcome is decided over the requests in the order given: if
\* some request carries an error, the error of the first such request decides
\* (a migration reconnects to its data center, a server failure ends the
\* attempt without result, a flood wait is slept or raised, anything else is
\* raised) and nothing is returned; otherwise, if some request has no result,
\* the attempt yields None; otherwise the results of all the requests are
\* returned, in order.  Every attempt is made with all the requests of its call.
C21_AllOrNothing ==
    [][\A t \in Tasks :
         /\ \A i \in 1..Len(stack[t]) : SameBatch(stack[t], i)
         /\ (At(t, "invoke", "post") /\ (Top(t).aborted = "none" \/ ~Top(t).call_receive)) =>
               LET f == Top(t)
                   n == Len(f.reqs)
                   bad == {j \in 1..n : f.reqs[j].rpc_error # "none"}
                   i == CHOOSE j \in bad : \A k \in bad : j <= k
                   e == f.reqs[i].rpc_error
                   g == stack'[t][Len(stack'[t])]
               IN IF bad # {}
                  THEN /\ ret'[t] = ret[t]
                            \/ (e = "Server" /\ ret'[t] = RetNone /\ stack'[t] = Below(t))
                       /\ e = "Migrate" =>
                             g.fn = "reconnect" /\ g.new_dc = f.reqs[i].arg /\ exc'[t] = NoExc
                       /\ e = "Flood" =>
                             IF f.reqs[i].arg > o.flood_sleep_threshold
                             THEN exc'[t].kind = "Flood"
                             ELSE g.pc = "flood_sleep" /\ g.slept = f.reqs[i].arg
                                  /\ exc'[t] = NoExc
                       /\ e \notin {"Server", "Migrate", "Flood"} => exc'[t].kind = e
                  ELSE /\ stack'[t] = Below(t) /\ exc'[t] = NoExc
                       /\ IF \E j \in 1..n : ~f.reqs[j].result
                          THEN ret'[t] = RetNone
                          ELSE ret'[t].tag = "results" /\ ret'[t].val = Ids(f.reqs)]_vars

\* a batch whose first request got a result and whose second request got an
\* error: the error is raised
C21_Witness ==
    \E t \in Tasks :
        /\ stack[t] # <<>> /\ Top(t).fn = "invoke" /\ Len(Top(t).reqs) = 2
        /\ Top(t).aborted = "none"
        /\ Top(t).reqs[1].result /\ Top(t).reqs[1].rpc_error = "none"
        /\ Top(t).reqs[2].rpc_error = "RPCOther"
        /\ exc[t].kind = "RPCOther"

\* task s is inside a _get_exported_client for data center dc that found no
\* cached session and is suspended in _get_dc or in the authorization export
FirstUseUnderWay(s, dc) ==
    /\ Len(stack[s]) > 1 /\ stack[s][1].fn = "exported" /\ stack[s][1].new_dc = dc
    /\ stack[s][1].pc \in {"got_dc", "exported"}

\* the sessions the cache holds for data center dc
SessionsFor(c, dc) == {s \in c.exported_sessions : s.dc = dc}

\* C22: first use of the exported-session cache is not serialized.  A
\* _get_exported_client that starts while another one for the same data
\* center is suspended in _get_dc or in its authorization export finds no
\* cached session and takes the same path; every call on that path issues an
\* authorization export; and each store replaces what the cache held, so the
\* cache holds one session for the data center, the one stored last.
C22_FirstUseNotSerialized ==
    [][/\ \A dc \in DCs :
            /\ Cardinality(SessionsFor(o, dc)) <= 1
            /\ SessionsFor(o, dc) # {} =>
                  /\ hist.stores # <<>>
                  /\ SessionsFor(o, dc) = {[dc |-> dc, by |-> hist.stores[Len(hist.stores)]]}
       /\ \A t \in Users :
            /\ (/\ At(t, "exported", "start")
                /\ \E s \in Users \ {t} : FirstUseUnderWay(s, Top(t).new_dc))
                  => /\ Len(stack'[t]) = 2
                     /\ stack'[t][1].pc = "got_dc" /\ stack'[t][2].fn = "get_dc"
            /\ At(t, "exported", "got_dc")
                  => /\ Len(stack'[t]) = 2 /\ stack'[t][2].fn = "call"
                     /\ Kinds(stack'[t][2].reqs) = <<"ExportAuthorization">>
                     /\ hist'.exports = hist.exports + 1
            /\ At(t, "exported", "exported")
                  => /\ SessionsFor(o', Top(t).new_dc) = {[dc |-> Top(t).new_dc, by |-> t]}
                     /\ hist'.stores = Append(hist.stores, t)]_vars

\* two overlapping calls both exported and both returned a client whose child
\* imported an authorization; the cache holds the session of the second to
\* store
C22_Witness ==
    /\ Len(hist.stores) = 2 /\ hist.stores[1] # hist.stores[2]
    /\ hist.exports = 2
    /\ Len(hist.clients) = 2
    /\ \A j \in 1..2 : hist.clients[j].how = "imported" /\ hist.clients[j].began = 0
    /\ \E d \in DCs : o.exported_sessions = {[dc |-> d, by |-> hist.stores[2]]}

\* C23: from the user's disconnect() until the user's next connect(), the
\* client stays user-disconnected and its link stays closed.
C23_StaysDisconnected ==
    hist.op[Main] = "disconnect" => ~o.user_connected /\ ~o.connected

\* C24: the idling flag is set only while the receive task exists: when the
\* task has ended, or was never started, the flag is clear.
C24_IdlingOnlyWhileReceiving ==
    task["recv"] = "none" => ~o.idling

\* the tasks suspended in sender.receive() on the open link: invocations in
\* their inline receive loop (lines 523-524), the receive task (line 660)
Receiving ==
    {t \in Tasks : /\ stack[t] # <<>> /\ LinkUp(t)
                    /\ \/ Top(t).fn = "invoke" /\ Top(t).pc = "recv"
                       \/ Top(t).fn = "recv" /\ Top(t).pc = "receive"}

\* C25: at most one task at a time is suspended in a receive on the link.
C25_OneReceiver ==
    Cardinality(Receiving) <= 1

====
